---- MODULE Spec2Model ----
(***************************************************************************)
(* A model of md2cf's page assembly (src/md2cf/document.py) and of its     *)
(* markup visitor (src/md2cf/confluence_renderer.py):                      *)
(*   - get_page_data_from_file_path: frontmatter, the rendering of a       *)
(*     document's headings, links and images, and the title of its Page;   *)
(*   - get_pages_from_directory: the two-pass walk over a directory tree   *)
(*     that turns folders and markdown documents into an ordered list of   *)
(*     Page records linked by parent_title;                                *)
(*   - parse_summary_md / get_pages_from_summary: the outline parser and   *)
(*     its depth-first flattening into Page records.                       *)
(* Paths are sequences of directory names below the root that is walked;   *)
(* a markdown file is the pair of its directory and its stem.              *)
(***************************************************************************)
EXTENDS Integers, Sequences, FiniteSets, TLC

\* ------------------------------------------------------------------ bounds
\* Directories below the root and markdown files in one input tree, and its
\* special items: flagged paths, documents that declare a title, .pages files.
MaxDirs == 3
MaxFiles == 3
MaxSpecial == 1
\* Lines of an outline file.
MaxLines == 3
\* Lines of a document after its frontmatter block.
MaxNodes == 2

\* ------------------------------------------------------------- the inputs
\* Python's None, for a title and for a file path.
None == "<None>"
Root == <<>>
NoFile == [parent |-> Root, stem |-> None]

\* The directories a tree may hold: a chain three deep.
DirUniverse ==
  {Root, <<"guide">>, <<"guide", "api_ref">>, <<"guide", "api_ref", "v2">>}

Parent(d) == SubSeq(d, 1, Len(d) - 1)
Name(d) == d[Len(d)]
IsPrefix(a, d) == Len(a) <= Len(d) /\ SubSeq(d, 1, Len(a)) = a
Children(d, ds) == {c \in ds : c # Root /\ Parent(c) = d}

\* The stems a directory's markdown files may have: that of each possible
\* subdirectory (the folder-as-content association), a plain one, and a
\* second plain one in the first directory of the chain.
StemsIn(d) ==
  {Name(c) : c \in Children(d, DirUniverse)} \cup {"index"}
    \cup (IF d = <<"guide">> THEN {"notes"} ELSE {})
FileUniverse(ds) ==
  {f \in [parent : ds, stem : {"guide", "api_ref", "v2", "index", "notes"}] :
     f.stem \in StemsIn(f.parent)}

\* The special items of a tree: a flagged directory below the root, a
\* flagged document, a document that declares a title, a directory with a
\* .pages file.
Specials(ds, fs) ==
  [kind : {"ignored_dir"}, dir : ds \ {Root}, file : {NoFile}]
    \cup [kind : {"pages_file"}, dir : ds, file : {NoFile}]
    \cup [kind : {"ignored_file", "declared"}, dir : {Root}, file : fs]

TreeShapes ==
  {t \cup {Root} : t \in {s \in SUBSET (DirUniverse \ {Root}) :
      /\ Cardinality(s) <= MaxDirs
      /\ \A d \in s : Parent(d) = Root \/ Parent(d) \in s}}

\* What urlparse returns for a link or image target. The path is kept as
\* its directory part, the name of the file and the file's suffix.
NoPath == [folder |-> "", name |-> "", suffix |-> ""]
NoUrl == [scheme |-> "", netloc |-> "", path |-> NoPath, fragment |-> ""]

\* The lines of a document. A frontmatter delimiter is "---" with or without
\* its newline; a "yaml" line is `key: value` (a `title:` without value
\* loads as None) and "yaml_error" is a line yaml.safe_load fails on with a
\* ParserError. The other lines are what the markdown parser hands to the
\* renderer: a heading, a link, an image, or text.
DelimiterLine == [kind |-> "delimiter", text |-> "---\n", level |-> 0,
                  key |-> "", value |-> "", url |-> NoUrl]
UnterminatedDelimiterLine == [DelimiterLine EXCEPT !.text = "---"]
YamlLine(key, value) ==
  [kind |-> "yaml", text |-> "", level |-> 0, key |-> key, value |-> value,
   url |-> NoUrl]
YamlErrorLine == [YamlLine("", "") EXCEPT !.kind = "yaml_error"]
HeadingLine(text, level) ==
  [kind |-> "heading", text |-> text, level |-> level, key |-> "",
   value |-> "", url |-> NoUrl]
TextLine == [HeadingLine("text", 0) EXCEPT !.kind = "text"]
LinkLine(text, url) ==
  [kind |-> "link", text |-> text, level |-> 0, key |-> "", value |-> "",
   url |-> url]
ImageLine(text, url) == [LinkLine(text, url) EXCEPT !.kind = "image"]

\* A document that declares no title, and one with a level-1 heading.
PlainDoc == <<TextLine>>
HeadingDoc == <<HeadingLine("Overview", 1), TextLine>>

VARIABLES
  \* the tree on disk and the arguments of get_pages_from_directory
  dirs, md_files, docs, pages_files, ignored_dirs, ignored_files, walk,
  collapse_single_pages, skip_empty, collapse_empty, beautify_folders,
  use_pages_file,
  \* the state of get_pages_from_directory
  pc, todo, files_used_as_folder_content, folder_data, processed_pages,
  \* history: for each page of processed_pages, the directory whose visit
  \* emitted it and whether it is that folder's own page or a document's
  origin,
  \* the outline file and the state of parse_summary_md
  lines, line_no, items, current_part, stack, in_numbered_section,
  \* the state of get_pages_from_summary
  summary_page_item, calls, pages,
  \* the state of get_page_data_from_file_path: the file, its lines (after
  \* line 323 without the frontmatter block), the frontmatter, the renderer
  \* with the position of the parser and what it has rendered, and the Page
  file_path, markdown_lines, frontmatter, renderer, node_no, output, page_read

inputVars ==
  <<dirs, md_files, docs, pages_files, ignored_dirs, ignored_files, walk,
    collapse_single_pages, skip_empty, collapse_empty, beautify_folders,
    use_pages_file>>
dirVarsButPc ==
  <<todo, files_used_as_folder_content, folder_data, processed_pages, origin>>
dirVars == <<pc, dirVarsButPc>>
parseVars ==
  <<lines, line_no, items, current_part, stack, in_numbered_section>>
summaryVars == <<summary_page_item, calls, pages>>
docVars ==
  <<file_path, markdown_lines, frontmatter, renderer, node_no, output, page_read>>
vars == <<inputVars, dirVars, parseVars, summaryVars, docVars>>

\* ---------------------------------------------------------- collaborators
\* GitRepository.is_ignored: a yes/no answer per path.
is_ignored_dir(d) == d \in ignored_dirs
is_ignored_file(f) == f \in ignored_files

\* os.walk(file_path): top-down, every directory after its parent and with
\* its whole subtree before the next sibling; siblings in any order.
IsWalkOf(w, ds) ==
  /\ Len(w) = Cardinality(ds)
  /\ {w[i] : i \in 1..Len(w)} = ds
  /\ \A i \in 1..Len(w) : \A j \in 1..Len(w) :
       /\ (IsPrefix(w[i], w[j]) /\ i # j) => i < j
       /\ \A k \in 1..Len(w) :
            (i < k /\ k < j /\ IsPrefix(w[i], w[j])) => IsPrefix(w[i], w[k])
WalkOrders(ds) ==
  {w \in [1..Cardinality(ds) -> ds] : IsWalkOf(w, ds)}

\* ------------------------------------------------------- pure operations
RECURSIVE JoinPath(_)
JoinPath(parts) ==
  IF Len(parts) = 0 THEN "."
  ELSE IF Len(parts) = 1 THEN parts[1]
  ELSE parts[1] \o "/" \o JoinPath(Tail(parts))

\* str(current_path.relative_to(folder_parent_path))
relative_to(current_path, other) ==
  JoinPath(SubSeq(current_path, Len(other) + 1, Len(current_path)))

\* name.replace("-", " ").replace("_", " ").capitalize(), on the names used
beautify(name) ==
  CASE name = "guide" -> "Guide"
    [] name = "api_ref" -> "Api ref"
    [] name = "v2" -> "V2"
    [] name = "index" -> "Index"
    [] name = "notes" -> "Notes"
    [] OTHER -> name

\* ---------------------------------------------- confluence_renderer.py
\* str.lower(), unquote() and the escaping of line 167, on the parts of the
\* targets used.
lower(str) ==
  CASE str = ".PNG" -> ".png"
    [] str = ".Pdf" -> ".pdf"
    [] str = "Logo" -> "logo"
    [] OTHER -> str
unquote(str) ==
  CASE str = "my%20report" -> "my report"
    [] OTHER -> str
html_escape(str) ==
  CASE str = "q&a" -> "q&amp;a"
    [] OTHER -> str

path_text(path) == path.folder \o path.name \o path.suffix
path_lower(path) ==
  [folder |-> lower(path.folder), name |-> lower(path.name),
   suffix |-> lower(path.suffix)]
unquote_path(path) ==
  [folder |-> unquote(path.folder), name |-> unquote(path.name),
   suffix |-> unquote(path.suffix)]
\* str.endswith(ext), for a path whose file name holds no other dot
endswith(path, ext) ==
  \/ path.suffix = ext
  \/ path.suffix = ".tar.gz" /\ ext = ".gz"
\* The target as it is written, which urlparse splits into the record.
url_str(url) ==
  (IF url.scheme # "" THEN url.scheme \o ":" ELSE "")
    \o (IF url.netloc # "" THEN "//" \o url.netloc ELSE "")
    \o path_text(url.path)
    \o (IF url.fragment # "" THEN "#" \o url.fragment ELSE "")
url_escaped(url) ==
  (IF url.scheme # "" THEN url.scheme \o ":" ELSE "")
    \o (IF url.netloc # "" THEN "//" \o url.netloc ELSE "")
    \o url.path.folder \o html_escape(url.path.name) \o url.path.suffix
    \o (IF url.fragment # "" THEN "#" \o url.fragment ELSE "")
\* Path(path).name
path_name(path) == path.name \o path.suffix
\* Path(src).name of the target as written: pathlib splits at "/" only
src_name(url) ==
  (IF url.path.folder = "" /\ url.netloc = "" /\ url.scheme # ""
   THEN url.scheme \o ":" ELSE "")
    \o path_name(url.path)
    \o (IF url.fragment # "" THEN "#" \o url.fragment ELSE "")

\* Lines 114-120.
image_extensions == {".png", ".jpg", ".jpeg", ".gif", ".svg", ".bmp", ".webp"}
video_extensions == {".mp4", ".webm", ".avi", ".mov", ".wmv"}
document_extensions ==
  {".pdf", ".pptx", ".ppt", ".docx", ".doc", ".xlsx", ".xls", ".zip", ".tar",
   ".gz", ".7z", ".rar", ".txt", ".csv", ".json", ".xml"}

\* ConfluenceRenderer.__init__ (lines 64-79).
ConfluenceRenderer(strip_header, enable_relative_links) ==
  [strip_header |-> strip_header,
   enable_relative_links |-> enable_relative_links,
   attachments |-> <<>>, title |-> None, relative_links |-> <<>>]

\* What a call of the renderer returns: the markup of an image (by
\* attachment or by url), of a link to an attachment, of a hyperlink, of a
\* heading, of text, or the empty string.
Markup(kind, ref, value, text) ==
  [kind |-> kind, ref |-> ref, value |-> value, text |-> text]
NoMarkup == Markup("empty", "", "", "")

\* ConfluenceRenderer.heading (lines 86-93).
heading(self, text, level) ==
  IF self.title = None /\ level = 1
  THEN [self |-> [self EXCEPT !.title = text],
        out |-> IF self.strip_header THEN NoMarkup
                ELSE Markup("heading", "", "", text)]
  ELSE [self |-> self, out |-> Markup("heading", "", "", text)]

\* ConfluenceRenderer.image (lines 203-223).
image(self, text, url) ==
  IF url.netloc = ""
  THEN [self |-> [self EXCEPT !.attachments = Append(@, url_str(url))],
        out |-> Markup("image", "attachment", src_name(url), text)]
  ELSE [self |-> self, out |-> Markup("image", "url", url_str(url), text)]

\* Lines 123 and 154-155: no scheme, no host, and a path.
is_local_file(url) ==
  url.scheme = "" /\ url.netloc = "" /\ path_text(url.path) # ""

\* A variant of has_extension that compares the path as written.
has_extension_as_written(url, extensions) ==
  \E ext \in extensions : endswith(url.path, ext)

\* Lines 127 and 133.
has_extension(url, extensions) ==
  \E ext \in extensions : endswith(path_lower(url.path), ext)

\* Lines 158-170: the RelativeLink of a target and its placeholder.
replacement_link(uuid) == "md2cf-internal-link-" \o uuid
RelativeLink(url, uuid) ==
  [path |-> path_text(unquote_path(url.path)),
   replacement |-> replacement_link(uuid),
   fragment |-> url.fragment,
   original |-> url_str(url),
   escaped_original |-> url_escaped(url)]

\* ConfluenceRenderer.link (lines 108-171); uuid is what uuid4() returns.
link(self, text, url, uuid) ==
  IF is_local_file(url) /\ has_extension(url, image_extensions \cup video_extensions)
  THEN image(self, text, url)
  ELSE IF is_local_file(url) /\ has_extension(url, document_extensions)
  THEN LET basename == path_name(unquote_path(url.path)) IN
       [self |-> [self EXCEPT
                    !.attachments = Append(@, path_text(unquote_path(url.path)))],
        out |-> Markup("link", "attachment", basename,
                       IF text # "" THEN text ELSE basename)]
  ELSE IF self.enable_relative_links /\ is_local_file(url)
  THEN [self |-> [self EXCEPT
                    !.relative_links = Append(@, RelativeLink(url, uuid))],
        out |-> Markup("link", "url", replacement_link(uuid), text)]
  ELSE [self |-> self, out |-> Markup("link", "url", url_str(url), text)]

\* The call the markdown parser makes for a line.
render(self, line, uuid) ==
  CASE line.kind = "heading" -> heading(self, line.text, line.level)
    [] line.kind = "link" -> link(self, line.text, line.url, uuid)
    [] line.kind = "image" -> image(self, line.text, line.url)
    [] OTHER -> [self |-> self, out |-> Markup("text", "", "", line.text)]

\* The renderer after the parser has gone through the lines.
RECURSIVE render_lines(_, _, _)
render_lines(self, markdown_lines_, uuid) ==
  IF markdown_lines_ = <<>> THEN self
  ELSE render_lines(render(self, Head(markdown_lines_), uuid).self,
                    Tail(markdown_lines_), uuid)

\* ------------------------------------------------------------ documents
\* `if x:` on a title
truthy(x) == x # None /\ x # ""

\* line == "---\n"
is_delimiter(line) == line.kind = "delimiter" /\ line.text = "---\n"

\* yaml.safe_load of the lines of a frontmatter block: the mapping of its
\* `key: value` lines (a '#' line is a comment), None when there is none or
\* when a line raises ParserError.
yaml_safe_load(block) ==
  LET entries == {i \in 1..Len(block) : block[i].kind = "yaml"}
      comments == {i \in 1..Len(block) : block[i].kind = "heading"}
      last(k) == CHOOSE i \in entries :
                   block[i].key = k /\ \A j \in entries : block[j].key = k => j <= i
  IN IF entries = {} \/ entries \cup comments # 1..Len(block)
     THEN [is_dict |-> FALSE, dict |-> <<>>]
     ELSE [is_dict |-> TRUE,
           dict |-> [k \in {block[i].key : i \in entries} |-> block[last(k)].value]]

\* get_document_frontmatter (lines 369-390).
get_document_frontmatter(lines_) ==
  LET closing == {i \in 2..Len(lines_) : is_delimiter(lines_[i])}
      frontmatter_end_line ==
        IF lines_ # <<>> /\ is_delimiter(lines_[1]) /\ closing # {}
        THEN CHOOSE i \in closing : \A j \in closing : i <= j
        ELSE 0
      loaded ==
        IF frontmatter_end_line > 2
        THEN yaml_safe_load(SubSeq(lines_, 2, frontmatter_end_line - 1))
        ELSE [is_dict |-> FALSE, dict |-> <<>>]
  IN IF ~loaded.is_dict THEN <<>>
     ELSE [k \in DOMAIN loaded.dict \cup {"frontmatter_end_line"} |->
             IF k = "frontmatter_end_line" THEN frontmatter_end_line
             ELSE loaded.dict[k]]

\* Lines 321-323: the lines without the frontmatter block.
strip_frontmatter(lines_, fm) ==
  IF "frontmatter_end_line" \in DOMAIN fm
  THEN SubSeq(lines_, fm["frontmatter_end_line"] + 1, Len(lines_))
  ELSE lines_

\* Lines 359-364 of parse_page: the Page of a renderer.
page_of_renderer(self) ==
  [title |-> self.title, attachments |-> self.attachments,
   relative_links |-> self.relative_links]

\* parse_page (lines 344-366).
parse_page(lines_, strip_header, enable_relative_links, uuid) ==
  page_of_renderer(
    render_lines(ConfluenceRenderer(strip_header, enable_relative_links),
                 lines_, uuid))

\* Lines 332-333.
apply_frontmatter(page_, fm) ==
  IF "title" \in DOMAIN fm THEN [page_ EXCEPT !.title = fm["title"]] ELSE page_

\* get_page_data_from_lines (lines 314-341).
get_page_data_from_lines(lines_, strip_header, enable_relative_links, uuid) ==
  LET fm == get_document_frontmatter(lines_) IN
  apply_frontmatter(
    parse_page(strip_frontmatter(lines_, fm), strip_header,
               enable_relative_links, uuid),
    fm)

\* Lines 306-307.
stem_fallback(page_, f) ==
  IF ~truthy(page_.title) THEN [page_ EXCEPT !.title = f.stem] ELSE page_

\* get_page_data_from_file_path (lines 281-311), as the assemblers call it.
get_page_data_from_file_path(f) ==
  LET page_ == stem_fallback(
                 get_page_data_from_lines(docs[f], FALSE, FALSE, "u1"), f) IN
  [title |-> page_.title,
   parent_title |-> None,
   file_path |-> f,
   body |-> [kind |-> "doc", of |-> f, toc |-> <<>>]]

EmptyBody == [kind |-> "empty", of |-> NoFile, toc |-> <<>>]

\* A variant of find_non_empty_parent_path that stops at the direct parent.
find_direct_parent_path(current_dir, fd, default) ==
  IF current_dir = Root THEN default ELSE Parent(current_dir)

RECURSIVE find_non_empty_parent_path(_, _, _)
find_non_empty_parent_path(current_dir, fd, default) ==
  IF current_dir = Root THEN default
  ELSE LET parent == Parent(current_dir) IN
       IF parent \in DOMAIN fd /\ fd[parent].n_files > 0 THEN parent
       ELSE find_non_empty_parent_path(parent, fd, default)

\* current_path.parent / f"{current_path.name}.md"
potential_file(d) == [parent |-> Parent(d), stem |-> Name(d)]

\* ------------------------------------------- get_pages_from_directory
\* The markdown files of a directory that the predicate does not flag
\* (lines 145-153), as a set; os.walk lists them in any order.
markdown_files_of(current_path) ==
  {f \in md_files : f.parent = current_path /\ ~is_ignored_file(f)}

Orderings(S) ==
  {s \in [1..Cardinality(S) -> S] : \A i, j \in 1..Cardinality(S) : s[i] = s[j] => i = j}

\* First pass (lines 122-136): the documents X.md that sit beside a
\* directory X/, both unflagged, in a directory that is itself unflagged.
first_pass_content_files ==
  {potential_file(subdir_path) :
     subdir_path \in {d \in dirs : /\ d # Root
                                   /\ ~is_ignored_dir(Parent(d))
                                   /\ ~is_ignored_dir(d)
                                   /\ potential_file(d) \in md_files
                                   /\ ~is_ignored_file(potential_file(d))}}

\* Lines 158-164: the document associated with the folder, if any.
folder_content_file_of(current_path) ==
  IF current_path # Root
     /\ potential_file(current_path) \in files_used_as_folder_content
  THEN potential_file(current_path)
  ELSE NoFile

\* Lines 183-188: the directory whose title parents this folder.
folder_parent_path_of(current_path, fd) ==
  IF skip_empty \/ collapse_empty
  THEN find_non_empty_parent_path(current_path, fd, Root)
  ELSE Parent(current_path)

\* Lines 191-206: the titles a folder gets from its name and the flags.
name_titles(current_path, n_files, folder_parent_path, folder_parent_title) ==
  IF n_files = 1 /\ collapse_single_pages
  THEN [parent_page_title |-> folder_parent_title, folder_title |-> None]
  ELSE LET t0 == Name(current_path)
           t1 == IF collapse_empty
                 THEN relative_to(current_path, folder_parent_path) ELSE t0
           t2 == IF beautify_folders THEN beautify(Name(current_path)) ELSE t1
       IN [parent_page_title |-> t2, folder_title |-> t2]

\* Lines 207-212: a .pages file that gives a title overrides both.
pages_file_title(current_path) == "Docs"
pages_titles(current_path, titles) ==
  IF use_pages_file /\ current_path \in pages_files
  THEN [parent_page_title |-> pages_file_title(current_path),
        folder_title |-> pages_file_title(current_path)]
  ELSE titles

\* Lines 222-238: the associated document's title overrides both.
content_titles(content_file, titles) ==
  IF content_file # NoFile
     /\ truthy(get_page_data_from_file_path(content_file).title)
  THEN [parent_page_title |-> get_page_data_from_file_path(content_file).title,
        folder_title |-> get_page_data_from_file_path(content_file).title]
  ELSE titles

\* A variant of emits_folder_page that does not look at skip_empty and
\* collapse_empty.
emits_folder_page_despite_flags(folder_title, n_files, directories) ==
  /\ folder_title # None
  /\ (n_files > 0 \/ directories # {})

\* Lines 240-242: whether the folder's own page is emitted.
emits_folder_page(folder_title, n_files, directories) ==
  /\ folder_title # None
  /\ (n_files > 0 \/ (directories # {} /\ ~skip_empty /\ ~collapse_empty))

\* A variant of skips_document without the check of line 260: only the
\* folder's own content file is passed over.
skips_document_own_only(markdown_file, content_file) ==
  content_file = markdown_file

\* Lines 255-261: a document that is some folder's content is not emitted
\* as a page of its own.
skips_document(markdown_file, content_file) ==
  \/ content_file = markdown_file
  \/ markdown_file \in files_used_as_folder_content

\* Lines 254-276: the loop over the folder's documents; acc carries the pages
\* appended so far and the title recorded for the folder.
RECURSIVE document_pages(_, _, _, _, _)
document_pages(markdown_files, content_file, parent_page_title, collapsing, acc) ==
  IF markdown_files = <<>> THEN acc
  ELSE LET markdown_file == Head(markdown_files)
           processed_page ==
             [get_page_data_from_file_path(markdown_file)
                EXCEPT !.parent_title = parent_page_title]
       IN IF skips_document(markdown_file, content_file)
          THEN document_pages(Tail(markdown_files), content_file,
                              parent_page_title, collapsing, acc)
          ELSE document_pages(Tail(markdown_files), content_file,
                              parent_page_title, collapsing,
                              [pages |-> Append(acc.pages, processed_page),
                               title |-> IF collapsing THEN processed_page.title
                                         ELSE acc.title])

\* The folder's own page (lines 243-252).
folder_page(folder_title, folder_parent_title, content_file) ==
  [title |-> folder_title,
   parent_title |-> folder_parent_title,
   file_path |-> IF content_file # NoFile
                 THEN get_page_data_from_file_path(content_file).file_path
                 ELSE NoFile,
   body |-> IF content_file # NoFile
            THEN get_page_data_from_file_path(content_file).body
            ELSE EmptyBody]

\* No document is being read.
DocumentIdle ==
  /\ file_path = NoFile
  /\ markdown_lines = <<>>
  /\ frontmatter = <<>>
  /\ renderer = ConfluenceRenderer(FALSE, FALSE)
  /\ node_no = 0
  /\ output = <<>>
  /\ page_read = page_of_renderer(ConfluenceRenderer(FALSE, FALSE))

InitDirectory ==
  /\ dirs \in TreeShapes
  /\ walk \in WalkOrders(dirs)
  /\ md_files \in {s \in SUBSET FileUniverse(dirs) : Cardinality(s) <= MaxFiles}
  /\ \E sp \in {s \in SUBSET Specials(dirs, md_files) : Cardinality(s) <= MaxSpecial} :
       /\ docs = [f \in md_files |->
                    IF [kind |-> "declared", dir |-> Root, file |-> f] \in sp
                    THEN HeadingDoc ELSE PlainDoc]
       /\ pages_files = {d \in dirs :
            [kind |-> "pages_file", dir |-> d, file |-> NoFile] \in sp}
       /\ ignored_dirs = {d \in dirs :
            [kind |-> "ignored_dir", dir |-> d, file |-> NoFile] \in sp}
       /\ ignored_files = {f \in md_files :
            [kind |-> "ignored_file", dir |-> Root, file |-> f] \in sp}
  /\ collapse_single_pages \in BOOLEAN
  /\ skip_empty \in BOOLEAN
  /\ collapse_empty \in BOOLEAN
  /\ beautify_folders \in BOOLEAN
  /\ use_pages_file \in BOOLEAN
  /\ lines = <<>>
  /\ line_no = 0
  /\ items = <<>>
  /\ current_part = 0
  /\ stack = <<>>
  /\ in_numbered_section = FALSE
  /\ summary_page_item = 0
  /\ calls = <<>>
  /\ pages = <<>>
  /\ DocumentIdle
  /\ pc = "first_pass"
  /\ todo = <<>>
  /\ files_used_as_folder_content = {}
  /\ folder_data = <<>>
  /\ processed_pages = <<>>
  /\ origin = <<>>

\* Lines 113-136.
FirstPass ==
  /\ pc = "first_pass"
  /\ files_used_as_folder_content' = first_pass_content_files
  /\ todo' = walk
  /\ pc' = "second_pass"
  /\ UNCHANGED <<inputVars, docVars, folder_data, processed_pages, origin,
                 parseVars, summaryVars>>

\* Lines 142-143: a flagged directory is passed over; os.walk still descends.
SkipIgnoredDir ==
  /\ pc = "second_pass"
  /\ todo # <<>>
  /\ is_ignored_dir(Head(todo))
  /\ todo' = Tail(todo)
  /\ UNCHANGED <<inputVars, docVars, pc, files_used_as_folder_content, folder_data,
                 processed_pages, origin,
                 parseVars, summaryVars>>

\* Line 190: folder_data[folder_parent_path] of a directory never recorded.
raises_key_error(current_path) ==
  /\ current_path # Root
  /\ folder_parent_path_of(current_path, folder_data) \notin DOMAIN folder_data

VisitDirKeyError ==
  /\ pc = "second_pass"
  /\ todo # <<>>
  /\ ~is_ignored_dir(Head(todo))
  /\ raises_key_error(Head(todo))
  /\ pc' = "error"
  /\ UNCHANGED <<inputVars, docVars, todo, files_used_as_folder_content, folder_data,
                 processed_pages, origin,
                 parseVars, summaryVars>>

\* One iteration of the second pass (lines 139-276).
VisitDir ==
  /\ pc = "second_pass"
  /\ todo # <<>>
  /\ ~is_ignored_dir(Head(todo))
  /\ ~raises_key_error(Head(todo))
  /\ \E markdown_files \in Orderings(markdown_files_of(Head(todo))) :
       LET current_path == Head(todo)
           directories == Children(current_path, dirs)
           n_files == Len(markdown_files)
           content_file == folder_content_file_of(current_path)
           folder_parent_path == folder_parent_path_of(current_path, folder_data)
           folder_parent_title ==
             IF current_path = Root THEN None
             ELSE folder_data[folder_parent_path].title
           t1 == IF current_path = Root
                 THEN [parent_page_title |-> None, folder_title |-> None]
                 ELSE name_titles(current_path, n_files, folder_parent_path,
                                  folder_parent_title)
           t2 == pages_titles(current_path, t1)
           t3 == content_titles(content_file, t2)
           own == IF emits_folder_page(t3.folder_title, n_files, directories)
                  THEN <<folder_page(t3.folder_title, folder_parent_title,
                                     content_file)>>
                  ELSE <<>>
           loop == document_pages(markdown_files, content_file,
                                  t3.parent_page_title,
                                  n_files = 1 /\ collapse_single_pages,
                                  [pages |-> <<>>, title |-> t3.folder_title])
       IN /\ folder_data' =
               [d \in DOMAIN folder_data \cup {current_path} |->
                  IF d = current_path
                  THEN [n_files |-> n_files, content_file |-> content_file,
                        subdirs |-> {Name(c) : c \in directories},
                        title |-> loop.title]
                  ELSE folder_data[d]]
          /\ processed_pages' = processed_pages \o own \o loop.pages
          /\ origin' = origin
                \o [i \in 1..Len(own) |-> [dir |-> current_path, kind |-> "folder"]]
                \o [i \in 1..Len(loop.pages) |->
                      [dir |-> current_path, kind |-> "document"]]
  /\ todo' = Tail(todo)
  /\ UNCHANGED <<inputVars, docVars, pc, files_used_as_folder_content, parseVars, summaryVars>>

\* Line 278.
ReturnPages ==
  /\ pc = "second_pass"
  /\ todo = <<>>
  /\ pc' = "done"
  /\ UNCHANGED <<inputVars, docVars, todo, files_used_as_folder_content, folder_data,
                 processed_pages, origin,
                 parseVars, summaryVars>>

NextDirectory ==
  \/ FirstPass
  \/ SkipIgnoredDir
  \/ VisitDirKeyError
  \/ VisitDir
  \/ ReturnPages

SpecDirectory == InitDirectory /\ [][NextDirectory]_vars

\* ------------------------------------------------------ parse_summary_md
\* A line of the outline file, as the parts its patterns tell apart: its
\* leading whitespace, a list marker, and what follows. kind is "blank",
\* "heading" (one '#', whitespace, words), "separator" (three dashes),
\* "link" ([title](path)) or "text" (anything else).
SummaryFile == [parent |-> Root, stem |-> "SUMMARY"]
LinkTitles == <<"One", "Two", "Three", "Four", "Five", "Six">>
LinkStems == <<"one", "two", "three", "four", "five", "six">>

RECURSIVE JoinWords(_)
JoinWords(words) ==
  IF Len(words) = 0 THEN ""
  ELSE IF Len(words) = 1 THEN words[1]
  ELSE words[1] \o " " \o JoinWords(Tail(words))

\* not line.strip()
is_blank(line) == line.kind = "blank"

\* line.strip().startswith('# Summary')
is_summary_title(line) ==
  line.kind = "heading" /\ Len(line.words) >= 1 /\ line.words[1] = "Summary"

\* separator_pattern = ^-{3,}\s*$
separator_match(line) == line.kind = "separator" /\ line.indent = <<>>

\* part_title_pattern = ^#\s+(.+)$
part_match(line) ==
  line.kind = "heading" /\ line.indent = <<>> /\ Len(line.words) >= 1

\* link_pattern = ^(\s*)[-*]?\s*\[([^\]]+)\]\(([^)]*)\)\s*$
link_match(line) == line.kind = "link" /\ line.title # ""

\* len(indent.replace('\t', '    '))
RECURSIVE indent_width(_)
indent_width(indent) ==
  IF indent = <<>> THEN 0
  ELSE (IF Head(indent) = "\t" THEN 4 ELSE 1) + indent_width(Tail(indent))

\* Line 476.
indent_level_of(line) == indent_width(line.indent) \div 2

\* line.lstrip().startswith(('-', '*'))
has_list_marker(line) == line.marker \in {"-", "*"}

\* Lines 479-481.
resolve_path(path_str) ==
  IF path_str = "" THEN NoFile ELSE [parent |-> Root, stem |-> path_str]

SummaryItem(title, path, is_part_title, parent) ==
  [title |-> title, path |-> path, is_part_title |-> is_part_title,
   is_separator |-> FALSE, parent |-> parent]

\* A variant of pop_stack that keeps an entry of the same level on the stack.
RECURSIVE pop_stack_deeper_only(_, _)
pop_stack_deeper_only(stk, indent_level) ==
  IF Len(stk) > 1 /\ stk[Len(stk)].indent > indent_level
  THEN pop_stack_deeper_only(SubSeq(stk, 1, Len(stk) - 1), indent_level)
  ELSE stk

\* Lines 493-494.
RECURSIVE pop_stack(_, _)
pop_stack(stk, indent_level) ==
  IF Len(stk) > 1 /\ stk[Len(stk)].indent >= indent_level
  THEN pop_stack(SubSeq(stk, 1, Len(stk) - 1), indent_level)
  ELSE stk

\* The children list of an item (0: the top-level list), in insertion order.
ChildrenSeq(its, i) ==
  LET IsChild(j) == its[j].parent = i
  IN SelectSeq([j \in 1..Len(its) |-> j], IsChild)

DirectoryIdle ==
  /\ dirs = {Root}
  /\ walk = <<Root>>
  /\ pages_files = {}
  /\ ignored_dirs = {}
  /\ ignored_files = {}
  /\ collapse_single_pages = FALSE
  /\ skip_empty = FALSE
  /\ collapse_empty = FALSE
  /\ beautify_folders = FALSE
  /\ use_pages_file = FALSE
  /\ todo = <<>>
  /\ files_used_as_folder_content = {}
  /\ folder_data = <<>>
  /\ processed_pages = <<>>
  /\ origin = <<>>

\* The shapes of a line: what it is, its indentation, its marker and, for a
\* link, its target: "draft" (empty path), "plain" (a document that declares
\* no title), "titled" (a document with a level-1 heading) or "missing".
HeadingShapes ==
  [kind : {"heading"}, indent : {<<>>}, marker : {""},
   words : {"summary", "summary_notes", "part"}, target : {"draft"}]
OtherShapes(kinds) ==
  [kind : kinds, indent : {<<>>}, marker : {""}, words : {"none"},
   target : {"draft"}]
LinkShapes(indents, markers, targets) ==
  [kind : {"link"}, indent : indents, marker : markers, words : {"none"},
   target : targets]

\* The line of a shape at position i: titles and paths differ by position.
LineOf(shape, i) ==
  [kind |-> shape.kind, indent |-> shape.indent, marker |-> shape.marker,
   words |-> CASE shape.words = "summary" -> <<"Summary">>
               [] shape.words = "summary_notes" -> <<"Summary", "Notes">>
               [] shape.words = "part" -> <<"Part", LinkTitles[i]>>
               [] OTHER -> <<>>,
   title |-> IF shape.kind = "link" THEN LinkTitles[i] ELSE "",
   path |-> IF shape.kind = "link" /\ shape.target # "draft"
            THEN LinkStems[i] ELSE ""]

\* SUMMARY.md read as a document: its '#' lines are level-1 headings.
as_document(ls) ==
  [i \in 1..Len(ls) |->
     IF ls[i].kind = "heading" /\ ls[i].indent = <<>>
     THEN HeadingLine(JoinWords(ls[i].words), 1)
     ELSE TextLine]

InitLines(shapes_universe) ==
  \E n \in 0..MaxLines : \E shapes \in [1..n -> shapes_universe] :
    /\ lines = [i \in 1..n |-> LineOf(shapes[i], i)]
    /\ md_files = {SummaryFile} \cup
         {resolve_path(LinkStems[i]) : i \in {j \in 1..n :
            shapes[j].kind = "link" /\ shapes[j].target \in {"plain", "titled"}}}
    /\ docs = [f \in md_files |->
         IF f = SummaryFile
         THEN as_document(lines)
         ELSE IF \E i \in 1..n : f.stem = LinkStems[i] /\ shapes[i].target = "titled"
              THEN HeadingDoc ELSE PlainDoc]

ParseStart ==
  /\ line_no = 1
  /\ items = <<>>
  /\ current_part = 0
  /\ stack = <<[list |-> 0, indent |-> -1]>>
  /\ in_numbered_section = FALSE
  /\ summary_page_item = 0
  /\ calls = <<>>
  /\ pages = <<>>
  /\ pc = "parse"

\* The outline files of the parser's specification: every indentation and
\* marker, one kind of target.
InitParse ==
  /\ InitLines(HeadingShapes \cup OtherShapes({"blank", "separator", "text"})
       \cup LinkShapes({<<>>, <<" ">>, <<" ", " ">>, <<"\t">>}, {"-", "*", ""},
                       {"plain"}))
  /\ DirectoryIdle
  /\ DocumentIdle
  /\ ParseStart

\* One iteration of the loop over the lines (lines 441-509).
ParseLine ==
  /\ pc = "parse"
  /\ line_no <= Len(lines)
  /\ LET line == lines[line_no]
         new == Len(items) + 1
         indent_level == indent_level_of(line)
         popped == pop_stack(stack, indent_level)
     IN IF is_blank(line) \/ is_summary_title(line) \/ separator_match(line)
        THEN UNCHANGED <<items, current_part, stack, in_numbered_section>>
        ELSE IF part_match(line)
        THEN /\ items' = Append(items,
                   SummaryItem(JoinWords(line.words), NoFile, TRUE, 0))
             /\ current_part' = new
             /\ stack' = <<[list |-> new, indent |-> -1]>>
             /\ in_numbered_section' = TRUE
        ELSE IF link_match(line) /\ has_list_marker(line)
        THEN /\ items' = Append(items,
                   SummaryItem(line.title, resolve_path(line.path), FALSE,
                               popped[Len(popped)].list))
             /\ stack' = Append(popped, [list |-> new, indent |-> indent_level])
             /\ in_numbered_section' = TRUE
             /\ UNCHANGED current_part
        ELSE IF link_match(line)
        THEN /\ items' = Append(items,
                   SummaryItem(line.title, resolve_path(line.path), FALSE, 0))
             /\ current_part' = 0
             /\ stack' = <<[list |-> 0, indent |-> -1]>>
             /\ in_numbered_section' = FALSE
        ELSE UNCHANGED <<items, current_part, stack, in_numbered_section>>
  /\ line_no' = line_no + 1
  /\ UNCHANGED <<inputVars, docVars, todo, files_used_as_folder_content, folder_data,
                 processed_pages, origin, lines, pc, summaryVars>>

\* Line 511.
ParseReturn ==
  /\ pc = "parse"
  /\ line_no > Len(lines)
  /\ pc' = "parsed"
  /\ UNCHANGED <<inputVars, docVars, todo, files_used_as_folder_content, folder_data,
                 processed_pages, origin, parseVars, summaryVars>>

NextParse == ParseLine \/ ParseReturn

SpecParse == InitParse /\ [][NextParse]_vars

\* ------------------------------------------------ get_pages_from_summary
\* generate_toc_for_item (lines 538-552): one line per descendant, each with
\* its indentation level, children before the next sibling.
RECURSIVE generate_toc_lines(_, _, _)
generate_toc_lines(its, children, indent_level) ==
  IF children = <<>> THEN <<>>
  ELSE LET child == Head(children)
       IN <<[indent |-> indent_level, title |-> its[child].title]>>
          \o (IF ChildrenSeq(its, child) # <<>>
              THEN generate_toc_lines(its, ChildrenSeq(its, child), indent_level + 1)
              ELSE <<>>)
          \o generate_toc_lines(its, Tail(children), indent_level)

generate_toc_for_item(its, item) ==
  generate_toc_lines(its, ChildrenSeq(its, item), 0)

\* item.path and item.path.exists()
path_exists(item) == item.path # NoFile /\ item.path \in md_files

\* Lines 586-609: whether the item gets the synthetic table of contents.
gets_toc(its, i) ==
  /\ its[i].is_part_title \/ its[i].path = NoFile
  /\ ChildrenSeq(its, i) # <<>>

\* Lines 565-619: the page of an item.
item_page(its, i, parent_title, use_summary_content) ==
  LET item == its[i] IN
  IF use_summary_content /\ i = summary_page_item
  THEN LET content_page == get_page_data_from_file_path(SummaryFile)
       IN [title |-> IF truthy(content_page.title) THEN content_page.title
                     ELSE item.title,
           parent_title |-> parent_title,
           file_path |-> content_page.file_path,
           body |-> content_page.body]
  ELSE IF path_exists(item)
  THEN LET content_page == get_page_data_from_file_path(item.path)
       IN [title |-> IF truthy(content_page.title) THEN content_page.title
                     ELSE item.title,
           parent_title |-> parent_title,
           file_path |-> content_page.file_path,
           body |-> content_page.body]
  ELSE [title |-> item.title,
        parent_title |-> parent_title,
        file_path |-> NoFile,
        body |-> IF gets_toc(its, i)
                 THEN [kind |-> "toc", of |-> NoFile,
                       toc |-> generate_toc_for_item(its, i)]
                 ELSE EmptyBody]

\* A variant of child_calls that hands down the outline's title of the item
\* instead of its page's.
child_calls_outline_title(its, i, page_title) ==
  [k \in 1..Len(ChildrenSeq(its, i)) |->
     [item |-> ChildrenSeq(its, i)[k], parent_title |-> its[i].title,
      use_summary_content |-> FALSE]]

\* The calls process_item(child, parent_title=page_title) of lines 623-624.
child_calls(its, i, page_title) ==
  [k \in 1..Len(ChildrenSeq(its, i)) |->
     [item |-> ChildrenSeq(its, i)[k], parent_title |-> page_title,
      use_summary_content |-> FALSE]]

\* The outline files of the assembler's specification: two indentations, a
\* marker or none, every kind of target.
InitSummary ==
  /\ InitLines(HeadingShapes \cup OtherShapes({"separator"})
       \cup LinkShapes({<<>>, <<" ", " ">>}, {"-", ""},
                       {"draft", "plain", "missing"})
       \cup LinkShapes({<<>>}, {"-"}, {"titled"}))
  /\ DirectoryIdle
  /\ DocumentIdle
  /\ ParseStart

\* Lines 529-536 and 627-630: the first part title stands for SUMMARY.md, and
\* every top-level item is processed in order.
StartPages ==
  /\ pc = "parsed"
  /\ summary_page_item' =
       (IF Len(items) > 0 /\ items[1].is_part_title /\ items[1].path = NoFile
        THEN 1 ELSE 0)
  /\ calls' = [k \in 1..Len(ChildrenSeq(items, 0)) |->
                 [item |-> ChildrenSeq(items, 0)[k], parent_title |-> None,
                  use_summary_content |->
                    (ChildrenSeq(items, 0)[k] = summary_page_item')]]
  /\ pc' = "flatten"
  /\ UNCHANGED <<inputVars, docVars, todo, files_used_as_folder_content, folder_data,
                 processed_pages, origin, parseVars, pages>>

\* One call of process_item (lines 554-624): the item's page, then its
\* children before anything else that is pending.
ProcessItem ==
  /\ pc = "flatten"
  /\ calls # <<>>
  /\ LET call == Head(calls)
         page == item_page(items, call.item, call.parent_title,
                           call.use_summary_content)
     IN IF items[call.item].is_separator
        THEN /\ calls' = Tail(calls)
             /\ UNCHANGED pages
        ELSE /\ pages' = Append(pages, page)
             /\ calls' = child_calls(items, call.item, page.title) \o Tail(calls)
  /\ UNCHANGED <<inputVars, docVars, todo, files_used_as_folder_content, folder_data,
                 processed_pages, origin, parseVars, pc, summary_page_item>>

\* Line 631.
ReturnSummaryPages ==
  /\ pc = "flatten"
  /\ calls = <<>>
  /\ pc' = "done"
  /\ UNCHANGED <<inputVars, docVars, todo, files_used_as_folder_content, folder_data,
                 processed_pages, origin, parseVars, summaryVars>>

NextSummary ==
  \/ ParseLine
  \/ ParseReturn
  \/ StartPages
  \/ ProcessItem
  \/ ReturnSummaryPages

SpecSummary == InitSummary /\ [][NextSummary]_vars

\* ---------------------------------------- get_page_data_from_file_path
\* The document that is read.
DocumentFile == [parent |-> Root, stem |-> "notes"]
\* What uuid4() may return.
UUIDs == {"u1", "u2"}

\* The frontmatter blocks of the inputs: none, an empty one, one of one or
\* two yaml lines, one that is never closed, and one whose closing delimiter
\* is the last line of the file and lacks its newline.
FrontmatterLines ==
  {YamlLine("title", "Alpha"), YamlLine("title", ""), YamlLine("title", None),
   YamlLine("labels", <<"draft">>), YamlErrorLine}
FrontmatterBlocks ==
  {<<>>, <<DelimiterLine, DelimiterLine>>,
   <<DelimiterLine, YamlLine("title", "Alpha")>>}
    \cup {<<DelimiterLine, a, DelimiterLine>> : a \in FrontmatterLines}
    \cup {<<DelimiterLine, a, b, DelimiterLine>> : a, b \in FrontmatterLines}
UnterminatedBlock ==
  <<DelimiterLine, YamlLine("title", "Alpha"), UnterminatedDelimiterLine>>

\* The targets of links and images: local ones, ones with a host, and ones
\* with a scheme and no host.
File(folder, name, suffix) ==
  [folder |-> folder, name |-> name, suffix |-> suffix]
Url(scheme, netloc, path, fragment) ==
  [scheme |-> scheme, netloc |-> netloc, path |-> path, fragment |-> fragment]
LocalUrls ==
  {Url("", "", File("", "Logo", ".PNG"), ""),
   Url("", "", File("", "clip", ".mp4"), ""),
   Url("", "", File("", "my%20report", ".Pdf"), ""),
   Url("", "", File("docs/", "my%20report", ".Pdf"), ""),
   Url("", "", File("", "data", ".tar.gz"), ""),
   Url("", "", File("", "q&a", ".md"), ""),
   Url("", "", File("", "q&a", ".md"), "intro"),
   Url("", "", File("", "notes", ""), ""),
   Url("", "", NoPath, ""),
   Url("", "", NoPath, "intro")}
RemoteUrls ==
  {Url(u[1], u[2], File(u[3], f[1], f[2]), "") :
     u \in {<<"https", "example.com", "/">>, <<"", "example.com", "/">>,
            <<"data", "", "">>},
     f \in {<<"Logo", ".PNG">>, <<"my%20report", ".Pdf">>, <<"notes", "">>}}
Urls == LocalUrls \cup RemoteUrls
ImageUrls == {u \in Urls : path_text(u.path) # ""}
\* The targets that are also linked without a text.
BareUrls == {u \in Urls : u.path.suffix \in {".Pdf", ".md"} /\ u.fragment = ""}

\* The lines of the documents whose title is followed, and of the documents
\* whose links and images are.
TitleLines ==
  {HeadingLine("Overview", 1), HeadingLine("Appendix", 1),
   HeadingLine("Details", 2), TextLine,
   LinkLine("here", Url("", "", File("", "notes", ""), "")),
   ImageLine("alt", Url("", "", File("", "Logo", ".PNG"), ""))}
RenderLines ==
  {HeadingLine("Overview", 1), TextLine}
    \cup {LinkLine("here", u) : u \in Urls}
    \cup {LinkLine("", u) : u \in BareUrls}
    \cup {ImageLine("alt", u) : u \in ImageUrls}

InitDocument(blocks, body_lines, strip_headers) ==
  /\ file_path = DocumentFile
  /\ md_files = {file_path}
  /\ \E block \in blocks : \E n \in 0..MaxNodes : \E body \in [1..n -> body_lines] :
       docs = [f \in md_files |-> block \o body]
  /\ \E strip_header \in strip_headers : \E enable_relative_links \in BOOLEAN :
       renderer = ConfluenceRenderer(strip_header, enable_relative_links)
  /\ markdown_lines = <<>>
  /\ frontmatter = <<>>
  /\ node_no = 0
  /\ output = <<>>
  /\ page_read = page_of_renderer(ConfluenceRenderer(FALSE, FALSE))
  /\ pc = "read"

OutlineIdle ==
  /\ lines = <<>>
  /\ line_no = 0
  /\ items = <<>>
  /\ current_part = 0
  /\ stack = <<>>
  /\ in_numbered_section = FALSE
  /\ summary_page_item = 0
  /\ calls = <<>>
  /\ pages = <<>>

\* Lines 290-323: the file is read, its frontmatter found and stripped.
ReadFrontmatter ==
  /\ pc = "read"
  /\ frontmatter' = get_document_frontmatter(docs[file_path])
  /\ markdown_lines' = strip_frontmatter(docs[file_path], frontmatter')
  /\ node_no' = 1
  /\ pc' = "render"
  /\ UNCHANGED <<inputVars, dirVarsButPc, parseVars, summaryVars, file_path,
                 renderer, output, page_read>>

\* The markdown parser reaches a line and calls the renderer (line 357).
RenderNext(kinds) ==
  /\ node_no <= Len(markdown_lines)
  /\ markdown_lines[node_no].kind \in kinds
  /\ \E uuid \in (IF markdown_lines[node_no].kind = "link" THEN UUIDs ELSE {"u1"}) :
       LET call == render(renderer, markdown_lines[node_no], uuid) IN
       /\ renderer' = call.self
       /\ output' = Append(output, call.out)
  /\ node_no' = node_no + 1
  /\ UNCHANGED <<inputVars, dirVars, parseVars, summaryVars, file_path,
                 markdown_lines, frontmatter, page_read>>

RenderHeading ==
  /\ pc = "render"
  /\ RenderNext({"heading"})

RenderLink ==
  /\ pc = "render"
  /\ RenderNext({"link"})

RenderImage ==
  /\ pc = "render"
  /\ RenderNext({"image"})

\* Anything else is text to the parser.
RenderText ==
  /\ pc = "render"
  /\ RenderNext({"text", "yaml", "yaml_error", "delimiter"})

\* parse_page returns the Page of the renderer (lines 359-366).
ParsePageReturn ==
  /\ pc = "render"
  /\ node_no > Len(markdown_lines)
  /\ page_read' = page_of_renderer(renderer)
  /\ pc' = "parsed_page"
  /\ UNCHANGED <<inputVars, dirVarsButPc, parseVars, summaryVars, file_path,
                 markdown_lines, frontmatter, renderer, node_no, output>>

\* Lines 332-341: the frontmatter's title replaces the heading's.
ApplyFrontmatter ==
  /\ pc = "parsed_page"
  /\ page_read' = apply_frontmatter(page_read, frontmatter)
  /\ pc' = "page_data"
  /\ UNCHANGED <<inputVars, dirVarsButPc, parseVars, summaryVars, file_path,
                 markdown_lines, frontmatter, renderer, node_no, output>>

\* Lines 306-311.
ReturnPageData ==
  /\ pc = "page_data"
  /\ page_read' = stem_fallback(page_read, file_path)
  /\ pc' = "returned"
  /\ UNCHANGED <<inputVars, dirVarsButPc, parseVars, summaryVars, file_path,
                 markdown_lines, frontmatter, renderer, node_no, output>>

NextDocument ==
  \/ ReadFrontmatter
  \/ RenderHeading
  \/ RenderLink
  \/ RenderImage
  \/ RenderText
  \/ ParsePageReturn
  \/ ApplyFrontmatter
  \/ ReturnPageData

\* Documents with every frontmatter block and a few lines.
InitTitle ==
  /\ \/ InitDocument(FrontmatterBlocks, TitleLines, BOOLEAN)
     \/ /\ InitDocument({UnterminatedBlock}, TitleLines, BOOLEAN)
        /\ Len(docs[file_path]) = Len(UnterminatedBlock)
  /\ DirectoryIdle
  /\ OutlineIdle

SpecTitle == InitTitle /\ [][NextDocument]_vars

\* Documents without frontmatter, with every link and image.
InitRender ==
  /\ InitDocument({<<>>}, RenderLines, {FALSE})
  /\ DirectoryIdle
  /\ OutlineIdle

SpecRender == InitRender /\ [][NextDocument]_vars

\* =========================================================== the claims
\* ------------------------------------------------- directory assembler
\* A path is excluded when the predicate flags it or a directory above it.
Excluded(d) == \E a \in ignored_dirs : IsPrefix(a, d)
ExcludedFile(f) == f \in ignored_files \/ Excluded(f.parent)
PageIndices == 1..Len(processed_pages)
PagesOfFile(f) == {i \in PageIndices : processed_pages[i].file_path = f}

\* C1: once get_pages_from_directory has returned, every markdown document
\* that is not excluded is the file_path of at least one emitted Page.
C1_EveryDocumentCovered ==
  pc = "done" =>
    \A f \in md_files : ~ExcludedFile(f) => PagesOfFile(f) # {}

\* C2: in the returned sequence every Page's parent_title is null or the
\* title of exactly one other Page.
C2_ParentTitleNamesOnePage ==
  pc = "done" =>
    \A i \in PageIndices :
      \/ processed_pages[i].parent_title = None
      \/ Cardinality({j \in PageIndices \ {i} :
           processed_pages[j].title = processed_pages[i].parent_title}) = 1

\* The sibling document X.md of a directory X/, when it exists and is not
\* excluded.
HasSiblingDocument(d) ==
  /\ d # Root
  /\ potential_file(d) \in md_files
  /\ ~ExcludedFile(potential_file(d))

\* C3: a document X.md beside a directory X/ is the file_path of at most one
\* Page, and is never both a standalone page and the body of a folder page.
C3_SiblingDocumentEmittedOnce ==
  \A d \in dirs : HasSiblingDocument(d) =>
    /\ Cardinality(PagesOfFile(potential_file(d))) <= 1
    /\ ~(\E i, j \in PagesOfFile(potential_file(d)) :
           origin[i].kind = "document" /\ origin[j].kind = "folder")

\* C3's case: the walk has returned and X.md went out as the body of the
\* page of X/, its parent directory having been visited with X.md in it.
C3_Witness ==
  /\ pc = "done"
  /\ \E d \in dirs :
       /\ HasSiblingDocument(d)
       /\ Parent(d) \in DOMAIN folder_data
       /\ \E i \in PagesOfFile(potential_file(d)) :
            origin[i] = [dir |-> d, kind |-> "folder"]

\* C4: the walk never fails, no Page has an excluded file_path, and no
\* folder page is emitted for an excluded directory.
C4_ExcludedPathsSkipped ==
  /\ pc # "error"
  /\ \A i \in PageIndices :
       /\ processed_pages[i].file_path # NoFile
            => ~ExcludedFile(processed_pages[i].file_path)
       /\ origin[i].kind = "folder" => ~Excluded(origin[i].dir)

\* The directory that has markdown content nearest above d, or the root.
HasContent(a) == \E f \in md_files : f.parent = a /\ f \notin ignored_files
EffectiveParent(d) ==
  LET above == {a \in dirs : IsPrefix(a, d) /\ a # d /\ HasContent(a)}
  IN IF above = {} THEN Root
     ELSE CHOOSE a \in above : \A b \in above : Len(b) <= Len(a)
\* The directory whose title parents d: the effective parent when empty
\* folders are skipped or collapsed, the direct parent otherwise.
ParentingDir(d) ==
  IF skip_empty \/ collapse_empty THEN EffectiveParent(d) ELSE Parent(d)
OnlyDocument(d) == CHOOSE f \in md_files : f.parent = d /\ f \notin ignored_files
HasOneDocument(d) ==
  Cardinality({f \in md_files : f.parent = d /\ f \notin ignored_files}) = 1
DeclaredTitle(f) ==
  LET headings == {i \in 1..Len(docs[f]) :
                     docs[f][i].kind = "heading" /\ docs[f][i].level = 1}
  IN IF headings = {} THEN f.stem
     ELSE docs[f][CHOOSE i \in headings : \A j \in headings : i <= j].text

\* C5: with collapse_single_pages, a folder below the root with exactly one
\* document gets no folder page, the document's page is parented under the
\* title of the folder's parent, and the folder pages of its subdirectories
\* are parented under the document's title.
C5_SinglePageFolderCollapsed ==
  (pc = "done" /\ collapse_single_pages) =>
    \A d \in dirs : (d # Root /\ ~Excluded(d) /\ HasOneDocument(d)) =>
      /\ ~(\E i \in PageIndices : origin[i] = [dir |-> d, kind |-> "folder"])
      /\ \A i \in PagesOfFile(OnlyDocument(d)) :
           processed_pages[i].parent_title = folder_data[ParentingDir(d)].title
      /\ \A i \in PageIndices :
           (origin[i].kind = "folder" /\ origin[i].dir \in Children(d, dirs)
              /\ ~Excluded(origin[i].dir))
             => processed_pages[i].parent_title = DeclaredTitle(OnlyDocument(d))

\* The path of d below a, its components joined by "/".
RelativeTitle(d, a) ==
  CASE Len(d) - Len(a) = 1 -> d[Len(d)]
    [] Len(d) - Len(a) = 2 -> d[Len(d) - 1] \o "/" \o d[Len(d)]
    [] OTHER -> d[Len(d) - 2] \o "/" \o d[Len(d) - 1] \o "/" \o d[Len(d)]

\* The folders C6 speaks of: visited, below the root, not excluded, not
\* single-page-collapsed, with no .pages title and no content document.
KeepsNameTitle(d) ==
  /\ d \in DOMAIN folder_data
  /\ d # Root
  /\ ~Excluded(d)
  /\ ~(collapse_single_pages /\ HasOneDocument(d))
  /\ ~(use_pages_file /\ d \in pages_files)
  /\ ~HasSiblingDocument(d)
TitledByRelativePath(d) ==
  /\ folder_data[d].title = RelativeTitle(d, EffectiveParent(d))
  /\ \A i \in PageIndices :
       origin[i] = [dir |-> d, kind |-> "folder"]
         => processed_pages[i].title = RelativeTitle(d, EffectiveParent(d))

\* C6 as stated: with collapse_empty, every such folder is titled by its
\* path relative to its effective parent.
C6_CollapsedTitleIsRelativePath ==
  collapse_empty =>
    \A d \in dirs : KeepsNameTitle(d) => TitledByRelativePath(d)

\* C6 amended: the same, when beautify_folders is off.
C6_CollapsedTitleIsRelativePathUnlessBeautified ==
  (collapse_empty /\ ~beautify_folders) =>
    \A d \in dirs : KeepsNameTitle(d) => TitledByRelativePath(d)

\* C6's case: a folder two levels below its effective parent got a page
\* titled by both levels.
C6_Witness ==
  /\ pc = "done"
  /\ collapse_empty
  /\ ~beautify_folders
  /\ \E d \in dirs :
       /\ KeepsNameTitle(d)
       /\ EffectiveParent(d) # Parent(d)
       /\ \E i \in PageIndices :
            /\ origin[i] = [dir |-> d, kind |-> "folder"]
            /\ processed_pages[i].title = RelativeTitle(d, EffectiveParent(d))

\* ------------------------------------------------------- outline parser
LineIndices == 1..Len(lines)
Bulleted(i) == lines[i].kind = "link" /\ lines[i].marker \in {"-", "*"}
Unbulleted(i) == lines[i].kind = "link" /\ lines[i].marker = ""
\* The title the line's item carries.
TitleOfLine(i) ==
  IF lines[i].kind = "heading" THEN JoinWords(lines[i].words) ELSE lines[i].title
HasItem(i) == \E j \in 1..Len(items) : items[j].title = TitleOfLine(i)
ItemOf(i) == CHOOSE j \in 1..Len(items) : items[j].title = TitleOfLine(i)
\* Leading indentation, a tab counted as four spaces, divided by two.
IsTab(c) == c = "\t"
IsSpace(c) == c = " "
ClaimLevel(i) ==
  (Len(SelectSeq(lines[i].indent, IsSpace))
     + 4 * Len(SelectSeq(lines[i].indent, IsTab))) \div 2
SetMax(S) == CHOOSE x \in S : \A y \in S : y <= x
RECURSIVE IsUnder(_, _)
IsUnder(j, a) ==
  j # 0 /\ (items[j].parent = a \/ IsUnder(items[j].parent, a))

\* The line that opened the section line i is in: the last part line the
\* parser took or entry without a marker before it, 0 when there is none.
TakenPartLine(k) == lines[k].kind = "heading" /\ ~is_summary_title(lines[k])
SectionStart(i) ==
  SetMax({k \in 1..(i - 1) : TakenPartLine(k) \/ Unbulleted(k)} \cup {0})
Shallower(i) ==
  {k \in (SectionStart(i) + 1)..(i - 1) :
     Bulleted(k) /\ ClaimLevel(k) < ClaimLevel(i)}
ExpectedParent(i) ==
  IF Shallower(i) # {} THEN ItemOf(SetMax(Shallower(i)))
  ELSE IF SectionStart(i) > 0 /\ lines[SectionStart(i)].kind = "heading"
       THEN ItemOf(SectionStart(i))
       ELSE 0

TitleLine(i) == lines[i].kind = "heading" /\ lines[i].words = <<"Summary">>
PartLine(i) ==
  lines[i].kind = "heading" /\ lines[i].indent = <<>> /\ ~TitleLine(i)
\* The bulleted entries after line i, up to the next part line or entry
\* without a marker.
EntriesOfPart(i) ==
  {k \in LineIndices :
     /\ k > i
     /\ Bulleted(k)
     /\ \A m \in (i + 1)..(k - 1) : ~PartLine(m) /\ ~Unbulleted(m)}

\* C8: every '#' line but the outline's title line opens a top-level part
\* under which the following bulleted entries are nested, and an entry
\* without a marker is at top level.
C8_PartLinesOpenParts ==
  pc = "parsed" =>
    /\ \A i \in LineIndices : PartLine(i) =>
         /\ HasItem(i)
         /\ items[ItemOf(i)].is_part_title
         /\ items[ItemOf(i)].parent = 0
         /\ \A k \in EntriesOfPart(i) : HasItem(k) /\ IsUnder(ItemOf(k), ItemOf(i))
    /\ \A i \in LineIndices : Unbulleted(i) =>
         HasItem(i) /\ items[ItemOf(i)].parent = 0

\* ----------------------------------------------------- outline assembler
\* The first part title of the outline, which stands for SUMMARY.md.
Distinguished(i) == i = 1 /\ items[1].is_part_title
Unresolvable(i) ==
  \/ items[i].is_part_title
  \/ items[i].path = NoFile
  \/ items[i].path \notin md_files
RECURSIVE Depth(_)
Depth(j) == IF items[j].parent = 0 THEN 0 ELSE 1 + Depth(items[j].parent)
\* The descendants of item i in outline order, each with its depth below i.
ExpectedToc(i) ==
  LET Below(j) == IsUnder(j, i)
      below == SelectSeq([j \in 1..Len(items) |-> j], Below)
  IN [k \in 1..Len(below) |->
        [indent |-> Depth(below[k]) - Depth(i) - 1, title |-> items[below[k]].title]]

\* C9: a node without a resolvable document, other than the first part
\* title, has the table of contents of its descendants as body when it has
\* children, and an empty body when it has none.
C9_TocForNodesWithoutDocument ==
  (pc = "done" /\ Len(pages) = Len(items)) =>
    \A i \in 1..Len(items) : (~Distinguished(i) /\ Unresolvable(i)) =>
      pages[i].body =
        (IF ExpectedToc(i) # <<>>
         THEN [kind |-> "toc", of |-> NoFile, toc |-> ExpectedToc(i)]
         ELSE EmptyBody)

\* The items in depth-first pre-order.
RECURSIVE Preorder(_)
Preorder(children) ==
  IF children = <<>> THEN <<>>
  ELSE <<Head(children)>> \o Preorder(ChildrenSeq(items, Head(children)))
         \o Preorder(Tail(children))
PositionIn(seq, x) == CHOOSE k \in 1..Len(seq) : seq[k] = x

\* C10: one Page per item, in depth-first pre-order, each parented under the
\* title of the Page of the item's parent, or null at top level.
C10_OnePagePerItemInPreorder ==
  pc = "done" =>
    LET pre == Preorder(ChildrenSeq(items, 0)) IN
    /\ Len(pre) = Len(items)
    /\ Len(pages) = Len(pre)
    /\ \A k \in 1..Len(pre) :
         LET item == items[pre[k]] IN
         /\ IF Distinguished(pre[k]) THEN pages[k].file_path = SummaryFile
            ELSE IF ~Unresolvable(pre[k]) THEN pages[k].file_path = item.path
            ELSE pages[k].file_path = NoFile /\ pages[k].title = item.title
         /\ pages[k].parent_title =
              (IF item.parent = 0 THEN None
               ELSE pages[PositionIn(pre, item.parent)].title)

\* C10's case: three pages, one of them under a parent whose page took its
\* title from the backing document.
C10_Witness ==
  /\ pc = "done"
  /\ Len(pages) >= 3
  /\ \E k \in 1..Len(pages) :
       /\ k <= Len(items)
       /\ items[k].parent # 0
       /\ pages[items[k].parent].title # items[items[k].parent].title
       /\ pages[k].parent_title = pages[items[k].parent].title

\* ------------------------------------------------------------- documents
\* The frontmatter of the document that is read, and its lines after it.
DocumentFrontmatter == get_document_frontmatter(docs[file_path])
DocumentBody == strip_frontmatter(docs[file_path], DocumentFrontmatter)
DeclaresFrontmatterTitle == "title" \in DOMAIN DocumentFrontmatter
Level1Headings ==
  {i \in 1..Len(DocumentBody) :
     DocumentBody[i].kind = "heading" /\ DocumentBody[i].level = 1}
FirstHeadingText ==
  DocumentBody[CHOOSE i \in Level1Headings : \A j \in Level1Headings : i <= j].text

\* C11: the title of the Page of a document is its frontmatter's title when
\* the frontmatter declares one, and otherwise the text of its first level-1
\* heading when it has one.
C11_TitleFromFrontmatterOrHeading ==
  pc = "returned" =>
    /\ DeclaresFrontmatterTitle =>
         page_read.title = DocumentFrontmatter["title"]
    /\ (~DeclaresFrontmatterTitle /\ Level1Headings # {}) =>
         page_read.title = FirstHeadingText

\* -------------------------------------------------------------- renderer
\* A step in which the renderer is called for a line of the given kind, the
\* line, and what the call returned.
Renders(kind) ==
  /\ pc = "render"
  /\ node_no <= Len(markdown_lines)
  /\ markdown_lines[node_no].kind = kind
  /\ node_no' = node_no + 1
RenderedLine == markdown_lines[node_no]
Returned == output'[Len(output')]

\* A local target: no scheme, no host, and a path.
LocalTarget(url) ==
  url.scheme = "" /\ url.netloc = "" /\ url.path # NoPath
\* The extension of a target, in lower case.
Extension(url) ==
  CASE url.path.suffix = ".PNG" -> ".png"
    [] url.path.suffix = ".Pdf" -> ".pdf"
    [] url.path.suffix = ".tar.gz" -> ".gz"
    [] OTHER -> url.path.suffix
MediaExtensions ==
  {".png", ".jpg", ".jpeg", ".gif", ".svg", ".bmp", ".webp",
   ".mp4", ".webm", ".avi", ".mov", ".wmv"}
DownloadExtensions ==
  {".pdf", ".pptx", ".ppt", ".docx", ".doc", ".xlsx", ".xls", ".zip", ".tar",
   ".gz", ".7z", ".rar", ".txt", ".csv", ".json", ".xml"}
\* The path of a target with its escape sequences decoded, and its last part.
DecodedName(url) ==
  (IF url.path.name = "my%20report" THEN "my report" ELSE url.path.name)
    \o url.path.suffix
DecodedPath(url) == url.path.folder \o DecodedName(url)

EmbedsMedia(url) ==
  /\ Returned.kind = "image"
  /\ Returned.ref = "attachment"
  /\ Len(renderer'.attachments) = Len(renderer.attachments) + 1
  /\ SubSeq(renderer'.attachments, 1, Len(renderer.attachments)) = renderer.attachments
  /\ renderer'.relative_links = renderer.relative_links
LinksDownload(url, text) ==
  /\ Returned = Markup("link", "attachment", DecodedName(url),
                       IF text = "" THEN DecodedName(url) ELSE text)
  /\ renderer'.attachments = Append(renderer.attachments, DecodedPath(url))
  /\ renderer'.relative_links = renderer.relative_links
LinksRelative(url, text) ==
  /\ Len(renderer'.relative_links) = Len(renderer.relative_links) + 1
  /\ SubSeq(renderer'.relative_links, 1, Len(renderer.relative_links))
       = renderer.relative_links
  /\ LET added == renderer'.relative_links[Len(renderer'.relative_links)] IN
     /\ added.original = url_str(url)
     /\ added.replacement # url_str(url)
     /\ Returned = Markup("link", "url", added.replacement, text)
  /\ renderer'.attachments = renderer.attachments
LinksOrdinary(url, text) ==
  /\ Returned = Markup("link", "url", url_str(url), text)
  /\ renderer'.attachments = renderer.attachments
  /\ renderer'.relative_links = renderer.relative_links

\* C12: a link is an embedded media reference when its target is local with
\* an image or video extension, a download link by decoded basename when it
\* is local with a document or archive extension, a RelativeLink with its
\* placeholder when it is local otherwise and enable_relative_links is set,
\* and an ordinary hyperlink with its destination unchanged in every other
\* case; extensions are compared without regard to case.
C12_LinkClassifiedByTarget ==
  [][Renders("link") =>
       LET url == RenderedLine.url
           text == RenderedLine.text
       IN IF LocalTarget(url) /\ Extension(url) \in MediaExtensions
          THEN EmbedsMedia(url)
          ELSE IF LocalTarget(url) /\ Extension(url) \in DownloadExtensions
          THEN LinksDownload(url, text)
          ELSE IF LocalTarget(url) /\ renderer.enable_relative_links
          THEN LinksRelative(url, text)
          ELSE LinksOrdinary(url, text)]_vars

\* C12's case: a link without text to docs/my%20report.Pdf has been rendered
\* as a download link named by the decoded basename, after a link to an
\* upper-case image, and both are attachments.
C12_Witness ==
  /\ pc = "render"
  /\ Len(output) = 2
  /\ markdown_lines[1].kind = "link"
  /\ markdown_lines[1].url.path.suffix = ".PNG"
  /\ output[1].kind = "image"
  /\ markdown_lines[2].kind = "link"
  /\ markdown_lines[2].text = ""
  /\ output[2] = Markup("link", "attachment", "my report.Pdf", "my report.Pdf")
  /\ renderer.attachments = <<"Logo.PNG", "docs/my report.Pdf">>

\* C13: an image whose source has neither scheme nor host is an attachment
\* reference by filename and is appended to attachments; one whose source
\* has a scheme or a host is a reference to its url and is not appended.
C13_ImageLocalWithoutSchemeAndHost ==
  [][Renders("image") =>
       LET url == RenderedLine.url IN
       IF url.scheme = "" /\ url.netloc = ""
       THEN /\ Returned.kind = "image"
            /\ Returned.ref = "attachment"
            /\ renderer'.attachments = Append(renderer.attachments, url_str(url))
       ELSE /\ Returned = Markup("image", "url", url_str(url), RenderedLine.text)
            /\ renderer'.attachments = renderer.attachments]_vars

\* ------------------------------------------- outline assembler, titles
\* The level-1 headings of a document of the outline (none has frontmatter).
HeadingsOf(f) ==
  {i \in 1..Len(docs[f]) : docs[f][i].kind = "heading" /\ docs[f][i].level = 1}
PageOfItem(i) == pages[PositionIn(Preorder(ChildrenSeq(items, 0)), i)]

\* C14: the Page of a node with a backing document has the document's title
\* when the document declares one, and the outline entry's title when it
\* declares none.
C14_OutlineTitleKeptWithoutDeclaredTitle ==
  (pc = "done" /\ Len(pages) = Len(items)) =>
    \A i \in 1..Len(items) : (~Distinguished(i) /\ ~Unresolvable(i)) =>
      PageOfItem(i).title =
        (IF HeadingsOf(items[i].path) # {}
         THEN docs[items[i].path][CHOOSE h \in HeadingsOf(items[i].path) :
                \A g \in HeadingsOf(items[i].path) : h <= g].text
         ELSE items[i].title)

\* ------------------------------------------- directory assembler, pages
FolderPages == {i \in PageIndices : origin[i].kind = "folder"}
\* A folder that no name, .pages file or content document gives a title:
\* the root, or a folder collapsed into its single document (for folders
\* that are not beneath a flagged directory).
WithoutTitleSource(d) ==
  /\ d = Root \/ (collapse_single_pages /\ HasOneDocument(d))
  /\ ~(use_pages_file /\ d \in pages_files)
  /\ ~(d # Root /\ HasSiblingDocument(d))

\* C15: a folder's page is emitted only if the folder has a title and either
\* holds a markdown document that is not excluded, or holds subdirectories
\* while neither skip_empty nor collapse_empty is set.
C15_FolderPageOnlyWithTitleAndContent ==
  \A i \in FolderPages :
    LET d == origin[i].dir IN
    /\ ~Excluded(d) => ~WithoutTitleSource(d)
    /\ processed_pages[i].title # None
    /\ \/ HasContent(d)
       \/ Children(d, dirs) # {} /\ ~skip_empty /\ ~collapse_empty

\* C15's case: with both flags off, a folder with subdirectories and no
\* document has its page, and the walk has returned.
C15_Witness ==
  /\ pc = "done"
  /\ ~skip_empty /\ ~collapse_empty
  /\ \E i \in FolderPages :
       /\ origin[i].dir # Root
       /\ ~HasContent(origin[i].dir)
       /\ Children(origin[i].dir, dirs) # {}

\* The pages of the folders below the root that are not beneath a flagged
\* directory.
PlainFolderPages ==
  {i \in FolderPages : origin[i].dir # Root /\ ~Excluded(origin[i].dir)}

\* C16: with skip_empty or collapse_empty, the page of a folder below the
\* root is parented under the title recorded for its effective parent, the
\* nearest ancestor that holds a markdown document or else the root, so that
\* a folder without markdown content is never the parent of a folder's page.
C16_ParentIsNearestAncestorWithContent ==
  (skip_empty \/ collapse_empty) =>
    \A i \in PlainFolderPages :
      LET parent == EffectiveParent(origin[i].dir) IN
      /\ parent \in DOMAIN folder_data
      /\ processed_pages[i].parent_title = folder_data[parent].title
      /\ processed_pages[i].parent_title # None => HasContent(parent)

\* The pages made from the documents directly in directory d, and the pages
\* made from the directories strictly below d.
DocumentPagesOf(d) ==
  {i \in PageIndices : origin[i].kind = "document" /\ origin[i].dir = d}

FolderPagesOf(d) ==
  {i \in FolderPages : origin[i].dir = d}

IsStrictlyBelow(e, d) ==
  /\ Len(e) > Len(d)
  /\ SubSeq(e, 1, Len(d)) = d

PagesBelow(d) ==
  {i \in PageIndices : IsStrictlyBelow(origin[i].dir, d)}

\* In every directory the folder page precedes the pages of its documents,
\* and both precede every page produced from its subdirectories.
InPreOrder ==
  \A d \in dirs :
    /\ \A i \in FolderPagesOf(d) :
         \A j \in DocumentPagesOf(d) \cup PagesBelow(d) : i < j
    /\ \A i \in DocumentPagesOf(d) : \A j \in PagesBelow(d) : i < j

\* Every page that has a parent_title comes after a page with that title.
ParentPrecedes ==
  \A j \in PageIndices :
    processed_pages[j].parent_title # None =>
      \E i \in 1..(j - 1) :
        processed_pages[i].title = processed_pages[j].parent_title

\* C17: the returned sequence is in pre-order (folder page, then the
\* directory's documents, then the pages of its subdirectories), and so
\* every page with a parent_title appears after a page bearing that title.
C17_PreOrderAndParentFirst ==
  pc = "done" => InPreOrder /\ ParentPrecedes

====
